---- MODULE Spec2Model ----
(***************************************************************************)
(* CarViewer.tsx: the per-frame wheel-orientation model of the 3D viewer.  *)
(*                                                                         *)
(* Angles are fixed-point integers in milli-radians (1 = 0.001 rad): the   *)
(* source's doubles are abstracted to exact arithmetic at that resolution, *)
(* `*= 0.9` truncating toward zero.  A quaternion is the word of the       *)
(* axis-angle rotations whose product it is (see Mul).                     *)
(***************************************************************************)
EXTENDS Integers, Sequences, FiniteSets, TLC

VARIABLES
    steeringAngleRef,     \* steeringAngleRef.current
    wheelRotationRef,     \* wheelRotationRef.current
    keysPressed,          \* keysPressed.current, a set of strings
    wheelsRef,            \* wheelsRef.current, a sequence of <<model, node name>>
    modelRef,             \* modelRef.current, a model id or NoModel
    steeringAxis,         \* React state
    rotationAxis,         \* React state
    manualSteeringAngle,  \* React state
    manualRotationSpeed,  \* React state
    effects,              \* the runs of the useEffect body, in order
    models,               \* the node state of every gltf.scene loaded so far
    frames,               \* number of executions of animate so far (history)
    sinceFrame            \* executions of animate since the last frame callback
                          \* began, that callback's own included (history)

vars == <<steeringAngleRef, wheelRotationRef, keysPressed, wheelsRef, modelRef,
          steeringAxis, rotationAxis, manualSteeringAngle, manualRotationSpeed,
          effects, models, frames, sinceFrame>>

refs == <<steeringAngleRef, wheelRotationRef, keysPressed, wheelsRef, modelRef>>

config == <<steeringAxis, rotationAxis, manualSteeringAngle, manualRotationSpeed>>

----------------------------------------------------------------------------
(* Bounds of the model *)

\* runs of the effect body (the first mount and the re-runs after a change)
MaxEffects == 2

\* executions of animate explored by Spec
MaxFrames == 7

\* executions of animate explored by SteerSpec
MaxSteerFrames == 18

\* executions of animate explored by RollSpec
MaxRollFrames == 20

\* runs of the effect body explored by LifeSpec
MaxLifeEffects == 2

\* executions of animate explored by LifeSpec
MaxLifeFrames == 4

\* executions of animate explored by AxisSpec
MaxAxisFrames == 4

----------------------------------------------------------------------------
(* Program constants, in milli-radians *)

\* const maxSteeringAngle = Math.PI / 4, rounded toward zero
maxSteeringAngle == 785

\* const steeringSpeed = 0.05
steeringSpeed == 50

\* Math.abs(steeringAngleRef.current) > 0.01
centreThreshold == 10

\* useState<number>(0.05)
initialRotationSpeed == 50

Abs(x) == IF x < 0 THEN -x ELSE x

Min(a, b) == IF a <= b THEN a ELSE b

Max(a, b) == IF a >= b THEN a ELSE b

\* x * 0.9, truncated toward zero at the model's resolution
TimesDecay(x) == IF x >= 0 THEN (x * 9) \div 10 ELSE -(((-x) * 9) \div 10)

----------------------------------------------------------------------------
(* Keyboard *)

\* e.key.toLowerCase() on the keys the model delivers
ToLowerCase(k) ==
    CASE k = "ArrowLeft"  -> "arrowleft"
      [] k = "ArrowRight" -> "arrowright"
      [] k = "A"          -> "a"
      [] k = "D"          -> "d"
      [] OTHER            -> k

\* key === 'arrowleft' || key === 'a' || key === 'arrowright' || key === 'd'
IsSteeringKey(key) == key \in {"arrowleft", "a", "arrowright", "d"}

\* keysPressed.current.has('ArrowLeft') || keysPressed.current.has('a')
LeftPressed(keys) == "ArrowLeft" \in keys \/ "a" \in keys

\* keysPressed.current.has('ArrowRight') || keysPressed.current.has('d')
RightPressed(keys) == "ArrowRight" \in keys \/ "d" \in keys

\* SteeringUpdate without the clamp of Math.min / Math.max
SteeringUpdateUnclamped(keys, angle) ==
    IF LeftPressed(keys)
    THEN angle + steeringSpeed
    ELSE IF RightPressed(keys)
         THEN angle - steeringSpeed
         ELSE IF Abs(angle) > centreThreshold
              THEN TimesDecay(angle)
              ELSE 0

\* SteeringUpdate without the snap to 0 under the threshold
SteeringUpdateNoSnap(keys, angle) ==
    IF LeftPressed(keys)
    THEN Min(angle + steeringSpeed, maxSteeringAngle)
    ELSE IF RightPressed(keys)
         THEN Max(angle - steeringSpeed, -maxSteeringAngle)
         ELSE TimesDecay(angle)

\* SteeringUpdate with the two key tests in the other order
SteeringUpdateRightFirst(keys, angle) ==
    IF RightPressed(keys)
    THEN Max(angle - steeringSpeed, -maxSteeringAngle)
    ELSE IF LeftPressed(keys)
         THEN Min(angle + steeringSpeed, maxSteeringAngle)
         ELSE IF Abs(angle) > centreThreshold
              THEN TimesDecay(angle)
              ELSE 0

\* the steering update of animate
SteeringUpdate(keys, angle) ==
    IF LeftPressed(keys)
    THEN Min(angle + steeringSpeed, maxSteeringAngle)
    ELSE IF RightPressed(keys)
         THEN Max(angle - steeringSpeed, -maxSteeringAngle)
         ELSE IF Abs(angle) > centreThreshold
              THEN TimesDecay(angle)
              ELSE 0

----------------------------------------------------------------------------
(* Rotations *)

\* new THREE.Vector3(axis === 'x' ? 1 : 0, axis === 'y' ? 1 : 0, axis === 'z' ? 1 : 0)
AxisVec(axis) == << IF axis = "x" THEN 1 ELSE 0,
                    IF axis = "y" THEN 1 ELSE 0,
                    IF axis = "z" THEN 1 ELSE 0 >>

\* new THREE.Quaternion(): the identity, the empty product
IdentityQ == << >>

\* Quaternion.setFromAxisAngle: one rotation of `angle` about `vec`
setFromAxisAngle(vec, angle) == IF angle = 0 THEN IdentityQ ELSE << <<vec, angle>> >>

\* Quaternion.multiply: p * q.  Rotations about one axis add their angles;
\* rotations about different axes do not commute and stay in order.  A factor
\* made from the zero vector is no rotation about an axis (setFromAxisAngle
\* gives the non-unit (0, 0, 0, cos(angle / 2))) and merges with nothing.
RECURSIVE Mul(_, _)
Mul(p, q) ==
    IF p = << >> THEN q
    ELSE IF q = << >> THEN p
    ELSE LET l    == p[Len(p)]
             f    == q[1]
             init == SubSeq(p, 1, Len(p) - 1)
         IN  IF l[1] # f[1] \/ l[1] = <<0, 0, 0>> THEN p \o q
             ELSE IF l[2] + f[2] = 0 THEN Mul(init, Tail(q))
             ELSE init \o << <<l[1], l[2] + f[2]>> >> \o Tail(q)

\* Quaternion.setFromEuler for the default order 'XYZ': qx * qy * qz
setFromEuler(e) ==
    Mul(Mul(setFromAxisAngle(<<1, 0, 0>>, e[1]), setFromAxisAngle(<<0, 1, 0>>, e[2])),
        setFromAxisAngle(<<0, 0, 1>>, e[3]))

----------------------------------------------------------------------------
(* The loaded mesh.  A node name is the sequence of its '_'-separated parts. *)

wheel_front_left == <<"wheel", "front", "left">>

wheel_front_right == <<"wheel", "front", "right">>

wheel_rear_left == <<"wheel", "rear", "left">>

wheel_rear_right == <<"wheel", "rear", "right">>

\* the nodes model.traverse visits, in order: the four wheels, a fifth node
\* whose name begins with 'wheel_', and a node that is no wheel
NodeOrder == << <<"body">>, wheel_front_left, wheel_front_right,
                wheel_rear_left, wheel_rear_right, <<"wheel", "spare">> >>

NodeNames == {NodeOrder[i] : i \in 1..Len(NodeOrder)}

\* child.rotation as authored in the mesh (an Euler triple)
AuthoredRotation(name) ==
    CASE name = wheel_front_left  -> <<0, 3142, 0>>
      [] name = wheel_front_right -> <<0, 0, 0>>
      [] name = wheel_rear_left   -> <<35, 3142, 0>>
      [] name = wheel_rear_right  -> <<35, 0, 0>>
      [] name = <<"wheel", "spare">> -> <<0, 0, 1571>>
      [] OTHER                    -> <<0, 0, 0>>

\* child.name.startsWith('wheel_')
StartsWithWheel(name) == Len(name) >= 2 /\ name[1] = "wheel"

\* userData.initialRotation not set
NoRotation == << >>

\* modelRef.current === null
NoModel == 0

\* gltf.scene as the loader hands it over: userData is empty
GltfScene == [n \in NodeNames |->
                 [quaternion      |-> setFromEuler(AuthoredRotation(n)),
                  initialRotation |-> NoRotation]]

\* CollectWheel storing a fresh Euler instead of the clone of child.rotation
CollectWheelFreshEuler(name, node) ==
    IF StartsWithWheel(name) /\ node.initialRotation = NoRotation
    THEN [node EXCEPT !.initialRotation = <<0, 0, 0>>]
    ELSE node

\* the wheel part of the traverse callback, for one node
CollectWheel(name, node) ==
    IF StartsWithWheel(name) /\ node.initialRotation = NoRotation
    THEN [node EXCEPT !.initialRotation = AuthoredRotation(name)]
    ELSE node

----------------------------------------------------------------------------
(* The wheel loop of animate *)

\* IsFrontWheel taking every node named wheel_... for a front wheel
IsFrontWheelAnyWheel(name) == StartsWithWheel(name)

IsFrontWheel(name) == name = wheel_front_left \/ name = wheel_front_right

IsRightWheel(name) == name = wheel_front_right \/ name = wheel_rear_right

\* FinalSteeringAngle without the inversion for the right wheel
FinalSteeringAngleNoMirror(name, angle, manual) == angle + manual

\* finalSteeringAngle of a front wheel
FinalSteeringAngle(name, angle, manual) ==
    IF IsRightWheel(name) THEN -(angle + manual) ELSE angle + manual

\* WheelQuaternion with the rolling rotation multiplied in before the steering
WheelQuaternionRollFirst(name, initialRotation, sAxis, rAxis, manual, angle, roll) ==
    LET q0 == setFromEuler(initialRotation)
        q1 == Mul(q0, setFromAxisAngle(AxisVec(rAxis), roll))
    IN  IF IsFrontWheel(name)
        THEN Mul(q1, setFromAxisAngle(AxisVec(sAxis),
                                      FinalSteeringAngle(name, angle, manual)))
        ELSE q1

\* the quaternion computed for one wheel: q of the forEach callback
WheelQuaternion(name, initialRotation, sAxis, rAxis, manual, angle, roll) ==
    LET q0 == setFromEuler(initialRotation)
        q1 == IF IsFrontWheel(name)
              THEN Mul(q0, setFromAxisAngle(AxisVec(sAxis),
                                            FinalSteeringAngle(name, angle, manual)))
              ELSE q0
    IN  Mul(q1, setFromAxisAngle(AxisVec(rAxis), roll))

Range(s) == {s[i] : i \in 1..Len(s)}

\* RotateWheels multiplying the steering and rolling rotations onto the
\* quaternion the wheel already has, instead of onto its initial rotation
RotateWheelsAccumulate(mods, wheels, sAxis, rAxis, manual, angle, roll) ==
    LET listed == Range(wheels)
    IN  [m \in DOMAIN mods |->
            [n \in DOMAIN mods[m] |->
                IF <<m, n>> \in listed
                THEN [mods[m][n] EXCEPT !.quaternion =
                         Mul(mods[m][n].quaternion,
                             WheelQuaternion(n, <<0, 0, 0>>,
                                             sAxis, rAxis, manual, angle, roll))]
                ELSE mods[m][n]]]

\* wheelsRef.current.forEach(...): every listed wheel gets its new quaternion
RotateWheels(mods, wheels, sAxis, rAxis, manual, angle, roll) ==
    LET listed == Range(wheels)
    IN  [m \in DOMAIN mods |->
            [n \in DOMAIN mods[m] |->
                IF <<m, n>> \in listed
                THEN [mods[m][n] EXCEPT !.quaternion =
                         WheelQuaternion(n, mods[m][n].initialRotation,
                                         sAxis, rAxis, manual, angle, roll)]
                ELSE mods[m][n]]]

----------------------------------------------------------------------------
(* The effect: setup, animate, listeners, cleanup *)

Mounted == effects # << >> /\ ~effects[Len(effects)].disposed

\* the state one run of the effect body creates: the values its closures
\* captured, its listeners, its pending frame request, its load, its scene
NewEffect(sAxis, rAxis, manual, speed) ==
    [steeringAxis        |-> sAxis,
     rotationAxis        |-> rAxis,
     manualSteeringAngle |-> manual,
     manualRotationSpeed |-> speed,
     listening           |-> TRUE,
     framePending        |-> TRUE,
     disposed            |-> FALSE,
     load                |-> "pending",
     scene               |-> {}]

\* Cleanup without cancelAnimationFrame(animationFrameId)
CleanupNoCancel(e) == [e EXCEPT !.listening = FALSE, !.disposed = TRUE]

\* the function the effect returns
Cleanup(e) == [e EXCEPT !.listening = FALSE, !.framePending = FALSE, !.disposed = TRUE]

\* AnimateBody assigning the speed to the accumulator (= for +=)
AnimateBodyAssign(e) ==
    LET angle == SteeringUpdate(keysPressed, steeringAngleRef)
        roll  == e.manualRotationSpeed
    IN  /\ steeringAngleRef' = angle
        /\ wheelRotationRef' = roll
        /\ models' = RotateWheels(models, wheelsRef, e.steeringAxis, e.rotationAxis,
                                  e.manualSteeringAngle, angle, roll)
        /\ frames' = frames + 1

\* AnimateBody subtracting the speed (-= for +=)
AnimateBodySubtract(e) ==
    LET angle == SteeringUpdate(keysPressed, steeringAngleRef)
        roll  == wheelRotationRef - e.manualRotationSpeed
    IN  /\ steeringAngleRef' = angle
        /\ wheelRotationRef' = roll
        /\ models' = RotateWheels(models, wheelsRef, e.steeringAxis, e.rotationAxis,
                                  e.manualSteeringAngle, angle, roll)
        /\ frames' = frames + 1

\* the body of animate after requestAnimationFrame, with the values `e` captured
AnimateBody(e) ==
    LET angle == SteeringUpdate(keysPressed, steeringAngleRef)
        roll  == wheelRotationRef + e.manualRotationSpeed
    IN  /\ steeringAngleRef' = angle
        /\ wheelRotationRef' = roll
        /\ models' = RotateWheels(models, wheelsRef, e.steeringAxis, e.rotationAxis,
                                  e.manualSteeringAngle, angle, roll)
        /\ frames' = frames + 1

\* Setup with the held-key set created anew by the effect body instead of
\* kept in a ref of the component
SetupFreshKeys(before, sAxis, rAxis, manual, speed) ==
    /\ effects' = Append(before, NewEffect(sAxis, rAxis, manual, speed))
    /\ AnimateBody(NewEffect(sAxis, rAxis, manual, speed))
    /\ sinceFrame' = sinceFrame + 1
    /\ keysPressed' = {}
    /\ UNCHANGED <<wheelsRef, modelRef>>

\* the effect body: scene, load request, animate(), listeners
Setup(before, sAxis, rAxis, manual, speed) ==
    /\ effects' = Append(before, NewEffect(sAxis, rAxis, manual, speed))
    /\ AnimateBody(NewEffect(sAxis, rAxis, manual, speed))
    /\ sinceFrame' = sinceFrame + 1
    /\ UNCHANGED <<keysPressed, wheelsRef, modelRef>>

\* cleanup of the running effect followed by the effect body, as React runs
\* them when a dependency changed
Rerun(sAxis, rAxis, manual, speed) ==
    Setup([effects EXCEPT ![Len(effects)] = Cleanup(@)], sAxis, rAxis, manual, speed)

\* first run of the effect, after the first render
Mount ==
    /\ effects = << >>
    /\ Setup(<< >>, steeringAxis, rotationAxis, manualSteeringAngle, manualRotationSpeed)
    /\ UNCHANGED config

\* the frame callback of effect i
Animate(i) ==
    /\ effects[i].framePending
    /\ AnimateBody(effects[i])
    /\ sinceFrame' = 1
    /\ UNCHANGED <<keysPressed, wheelsRef, modelRef, effects, config>>

handleKeyDown(k) ==
    /\ \E i \in 1..Len(effects) : effects[i].listening
    /\ keysPressed' = IF IsSteeringKey(ToLowerCase(k))
                      THEN keysPressed \cup {ToLowerCase(k)}
                      ELSE keysPressed
    /\ UNCHANGED <<steeringAngleRef, wheelRotationRef, wheelsRef, modelRef,
                   effects, models, frames, sinceFrame, config>>

handleKeyUp(k) ==
    /\ \E i \in 1..Len(effects) : effects[i].listening
    /\ keysPressed' = keysPressed \ {ToLowerCase(k)}
    /\ UNCHANGED <<steeringAngleRef, wheelRotationRef, wheelsRef, modelRef,
                   effects, models, frames, sinceFrame, config>>

\* onClick of a steering-axis button
SetSteeringAxis(axis) ==
    /\ Mounted
    /\ axis # steeringAxis
    /\ steeringAxis' = axis
    /\ Rerun(axis, rotationAxis, manualSteeringAngle, manualRotationSpeed)
    /\ UNCHANGED <<rotationAxis, manualSteeringAngle, manualRotationSpeed>>

\* onClick of a rotation-axis button
SetRotationAxis(axis) ==
    /\ Mounted
    /\ axis # rotationAxis
    /\ rotationAxis' = axis
    /\ Rerun(steeringAxis, axis, manualSteeringAngle, manualRotationSpeed)
    /\ UNCHANGED <<steeringAxis, manualSteeringAngle, manualRotationSpeed>>

\* onChange of the steering slider, onClick of Reset
SetManualSteeringAngle(v) ==
    /\ Mounted
    /\ v # manualSteeringAngle
    /\ manualSteeringAngle' = v
    /\ Rerun(steeringAxis, rotationAxis, v, manualRotationSpeed)
    /\ UNCHANGED <<steeringAxis, rotationAxis, manualRotationSpeed>>

\* onChange of the rotation-speed slider
SetManualRotationSpeed(v) ==
    /\ Mounted
    /\ v # manualRotationSpeed
    /\ manualRotationSpeed' = v
    /\ Rerun(steeringAxis, rotationAxis, manualSteeringAngle, v)
    /\ UNCHANGED <<steeringAxis, rotationAxis, manualSteeringAngle>>

\* the component is removed: cleanup without a new setup
Unmount ==
    /\ Mounted
    /\ effects' = [effects EXCEPT ![Len(effects)] = Cleanup(@)]
    /\ UNCHANGED <<refs, models, frames, sinceFrame, config>>

\* onLoad of the load effect i started
LoadComplete(i) ==
    /\ effects[i].load = "pending"
    /\ wheelsRef' = [j \in 1..Len(SelectSeq(NodeOrder, StartsWithWheel)) |->
                        <<i, SelectSeq(NodeOrder, StartsWithWheel)[j]>>]
    /\ models' = (i :> [n \in NodeNames |-> CollectWheel(n, GltfScene[n])]) @@ models
    /\ effects' = [effects EXCEPT ![i].load = "loaded", ![i].scene = @ \cup {i}]
    /\ modelRef' = i
    /\ UNCHANGED <<steeringAngleRef, wheelRotationRef, keysPressed, frames,
                   sinceFrame, config>>

\* LoadError stopping the frame loop of the effect
LoadErrorStopsLoop(i) ==
    /\ effects[i].load = "pending"
    /\ effects' = [effects EXCEPT ![i].load = "failed", ![i].framePending = FALSE]
    /\ UNCHANGED <<refs, models, frames, sinceFrame, config>>

\* onError of the load effect i started
LoadError(i) ==
    /\ effects[i].load = "pending"
    /\ effects' = [effects EXCEPT ![i].load = "failed"]
    /\ UNCHANGED <<refs, models, frames, sinceFrame, config>>

----------------------------------------------------------------------------
(* Inputs *)

\* e.key of the key events delivered
Keys == {"ArrowLeft", "ArrowRight", "a", "d", "A", "w"}

Axes == {"x", "y", "z"}

\* the values a string-typed axis can hold: the three of the type and one
\* outside it
AnyAxes == Axes \cup {"none"}

\* values of the steering slider (min -1.57, max 1.57, step 0.01)
SteeringAngles == {-100, 0}

\* values of the rotation-speed slider (min 0, max 0.2, step 0.001)
RotationSpeeds == {0, 50, 200}

\* the state after the first render, before the effect has run
Init ==
    /\ steeringAngleRef = 0
    /\ wheelRotationRef = 0
    /\ keysPressed = {}
    /\ wheelsRef = << >>
    /\ modelRef = NoModel
    /\ steeringAxis = "y"
    /\ rotationAxis = "x"
    /\ manualSteeringAngle = 0
    /\ manualRotationSpeed = initialRotationSpeed
    /\ effects = << >>
    /\ models = << >>
    /\ frames = 0
    /\ sinceFrame = 0

(* The wheel loop: a loaded model steered with 'a' under changes of each of *)
(* the four settings (every pair of axis values is covered by AxisSpec).    *)
(* The load of an effect completes here while the effect is still running.  *)
Next ==
    \/ frames < MaxFrames /\ Mount
    \/ \E i \in 1..Len(effects) : frames < MaxFrames /\ Animate(i)
    \/ \E k \in {"a"} : handleKeyDown(k)
    \/ \E k \in {"a"} : handleKeyUp(k)
    \/ \E a \in {"x", "y"} :
          frames < MaxFrames /\ Len(effects) < MaxEffects /\ SetSteeringAxis(a)
    \/ \E a \in {"x", "z"} :
          frames < MaxFrames /\ Len(effects) < MaxEffects /\ SetRotationAxis(a)
    \/ \E v \in SteeringAngles :
          frames < MaxFrames /\ Len(effects) < MaxEffects /\ SetManualSteeringAngle(v)
    \/ \E v \in {0, initialRotationSpeed} :
          frames < MaxFrames /\ Len(effects) < MaxEffects /\ SetManualRotationSpeed(v)
    \/ \E i \in 1..Len(effects) : ~effects[i].disposed /\ LoadComplete(i)

Spec == Init /\ [][Next]_vars

(* The steering law under every key, over long runs of frames, with one     *)
(* re-run of the effect (a change of the steering axis); no model is loaded *)
SteerNext ==
    \/ frames < MaxSteerFrames /\ Mount
    \/ \E i \in 1..Len(effects) : frames < MaxSteerFrames /\ Animate(i)
    \/ \E k \in Keys : handleKeyDown(k)
    \/ \E k \in Keys : handleKeyUp(k)
    \/ \E a \in {"x"} :
          frames < MaxSteerFrames /\ Len(effects) < MaxEffects /\ SetSteeringAxis(a)

SteerSpec == Init /\ [][SteerNext]_vars

(* The roll accumulator over long runs of frames and the whole life cycle; *)
(* the only key delivered is one that does not steer                       *)
RollNext ==
    \/ frames < MaxRollFrames /\ Mount
    \/ \E i \in 1..Len(effects) : frames < MaxRollFrames /\ Animate(i)
    \/ \E k \in {"w"} : handleKeyDown(k)
    \/ \E k \in {"w"} : handleKeyUp(k)
    \/ \E v \in RotationSpeeds :
          frames < MaxRollFrames /\ Len(effects) < MaxEffects /\ SetManualRotationSpeed(v)
    \/ Unmount
    \/ \E i \in 1..Len(effects) : LoadComplete(i)
    \/ \E i \in 1..Len(effects) : LoadError(i)

RollSpec == Init /\ [][RollNext]_vars

(* The life cycle: re-runs of the effect under each of the four settings,  *)
(* removal, and loads that complete or fail at any time, also after the    *)
(* cleanup of the effect that started them; steered with 'a'               *)
LifeNext ==
    \/ frames < MaxLifeFrames /\ Mount
    \/ \E i \in 1..Len(effects) : frames < MaxLifeFrames /\ Animate(i)
    \/ \E k \in {"a"} : handleKeyDown(k)
    \/ \E k \in {"a"} : handleKeyUp(k)
    \/ \E a \in {"x", "y"} :
          frames < MaxLifeFrames /\ Len(effects) < MaxLifeEffects /\ SetSteeringAxis(a)
    \/ \E a \in {"x", "z"} :
          frames < MaxLifeFrames /\ Len(effects) < MaxLifeEffects /\ SetRotationAxis(a)
    \/ \E v \in SteeringAngles :
          frames < MaxLifeFrames /\ Len(effects) < MaxLifeEffects
             /\ SetManualSteeringAngle(v)
    \/ \E v \in {0, initialRotationSpeed} :
          frames < MaxLifeFrames /\ Len(effects) < MaxLifeEffects
             /\ SetManualRotationSpeed(v)
    \/ Unmount
    \/ \E i \in 1..Len(effects) : LoadComplete(i)
    \/ \E i \in 1..Len(effects) : LoadError(i)

LifeSpec == Init /\ [][LifeNext]_vars

(* The wheel loop as a function of the axis values: the component starts   *)
(* from any axis value a string can hold, one outside 'x' | 'y' | 'z'      *)
(* included (the type is erased at run time; no button sets such a value)  *)
AxisInit ==
    /\ steeringAngleRef = 0
    /\ wheelRotationRef = 0
    /\ keysPressed = {}
    /\ wheelsRef = << >>
    /\ modelRef = NoModel
    /\ steeringAxis \in AnyAxes
    /\ rotationAxis \in AnyAxes
    /\ manualSteeringAngle \in SteeringAngles
    /\ manualRotationSpeed \in RotationSpeeds
    /\ effects = << >>
    /\ models = << >>
    /\ frames = 0
    /\ sinceFrame = 0

AxisNext ==
    \/ frames < MaxAxisFrames /\ Mount
    \/ \E i \in 1..Len(effects) : frames < MaxAxisFrames /\ Animate(i)
    \/ \E k \in {"a"} : handleKeyDown(k)
    \/ \E k \in {"a"} : handleKeyUp(k)
    \/ \E i \in 1..Len(effects) : LoadComplete(i)

AxisSpec == AxisInit /\ [][AxisNext]_vars

----------------------------------------------------------------------------
(* Properties *)

\* a step in which animate ran: a frame callback, or the animate() call of
\* the effect body
Ticked == frames' = frames + 1

\* the keys of the two logical actions, as the handlers store them
LeftHeld == keysPressed \cap {"arrowleft", "a"} # {}

RightHeld == keysPressed \cap {"arrowright", "d"} # {}

\* the decay branch of the steering contract
Decayed(angle) == IF Abs(angle) > centreThreshold THEN TimesDecay(angle) ELSE 0

\* C1: at every frame, after any sequence of key events, frame ticks and
\* re-runs of the effect, -pi/4 <= steeringAngle <= pi/4.
ClampingInvariant ==
    /\ -maxSteeringAngle <= steeringAngleRef
    /\ steeringAngleRef <= maxSteeringAngle

\* C1 witness: the angle sits on the upper clamp after the effect was re-run
ClampReached == steeringAngleRef = maxSteeringAngle /\ Len(effects) = 2

\* C2: on a tick with no steering key held, an angle above the threshold gets
\* strictly closer to 0 (by the factor 0.9, keeping its sign), so the threshold
\* is reached after finitely many ticks; an angle within the threshold becomes
\* exactly 0; and 0 stays 0.
ReturnToCentre ==
    [][(Ticked /\ ~LeftHeld /\ ~RightHeld) =>
          /\ Abs(steeringAngleRef) > centreThreshold =>
                /\ Abs(steeringAngleRef') < Abs(steeringAngleRef)
                /\ 10 * Abs(steeringAngleRef') <= 9 * Abs(steeringAngleRef)
                /\ steeringAngleRef' * steeringAngleRef >= 0
          /\ Abs(steeringAngleRef) <= centreThreshold => steeringAngleRef' = 0]_vars

\* C2 witness: no key is held and the angle has decayed to within the
\* threshold (9 is reached only by decaying), one tick before the snap
AboutToSnap ==
    /\ keysPressed = {}
    /\ steeringAngleRef = 9
    /\ frames < MaxSteerFrames

\* C3 as stated: a tick with a steer-left key and a steer-right key both held
\* takes the decay branch.
BothHeldDecays ==
    [][(Ticked /\ LeftHeld /\ RightHeld) =>
          steeringAngleRef' = Decayed(steeringAngleRef)]_vars

\* C3 amended: the left test comes first, so a tick with 'a' held together
\* with a steer-right key takes the steer-left step, not the decay branch.
LeftHasPriority ==
    [][(Ticked /\ "a" \in keysPressed /\ RightHeld) =>
          steeringAngleRef' = Min(steeringAngleRef + steeringSpeed, maxSteeringAngle)]_vars

\* C3 witness: both letters are held and the angle has moved left
BothLettersHeld == keysPressed = {"a", "d"} /\ steeringAngleRef = 2 * steeringSpeed

\* C4 as stated: a tick with only steer-left held adds 0.05 up to pi/4, a tick
\* with only steer-right held subtracts 0.05 down to -pi/4.
SingleDirectionStep ==
    [][Ticked =>
          /\ (LeftHeld /\ ~RightHeld) =>
                steeringAngleRef' = Min(steeringAngleRef + steeringSpeed, maxSteeringAngle)
          /\ (RightHeld /\ ~LeftHeld) =>
                steeringAngleRef' = Max(steeringAngleRef - steeringSpeed, -maxSteeringAngle)]_vars

\* the held keys with each arrow key replaced by the letter key of its action
AsLetters(keys) ==
    {IF k = "arrowleft" THEN "a" ELSE IF k = "arrowright" THEN "d" ELSE k : k \in keys}

\* C5 as stated: a tick steers the same way whether an action is held by its
\* arrow key or by its letter key: left if a steer-left key is held, else right
\* if a steer-right key is held.
ArrowKeysSteer ==
    [][Ticked =>
          /\ ("arrowleft" \in keysPressed /\ ~RightHeld) =>
                steeringAngleRef' = Min(steeringAngleRef + steeringSpeed, maxSteeringAngle)
          /\ ("arrowright" \in keysPressed /\ ~LeftHeld) =>
                steeringAngleRef' = Max(steeringAngleRef - steeringSpeed, -maxSteeringAngle)
          /\ steeringAngleRef' =
                SteeringUpdate(AsLetters(keysPressed), steeringAngleRef)]_vars

\* C6: a tick adds the roll speed in force to the accumulator, and nothing
\* else changes it: no key event, re-run of the effect, removal, load
\* completion or load failure clamps, wraps, decreases or resets it.  While
\* the speed has been 0.05 throughout, n ticks give n * 0.05: 1.0 after 20.
LinearRoll ==
    /\ [][wheelRotationRef' =
             wheelRotationRef + (IF Ticked THEN manualRotationSpeed' ELSE 0)]_vars
    /\ []((\A i \in 1..Len(effects) : effects[i].manualRotationSpeed = 50)
             => wheelRotationRef = 50 * frames)

\* C6 witness: 20 ticks at 0.05 across a completed load
TwentyTicks ==
    /\ frames = 20
    /\ wheelRotationRef = 1000
    /\ effects[1].load = "loaded"

\* C7 as stated: every tick strictly increases the roll accumulator, for every
\* speed of the slider.
StrictRollIncrease == [][Ticked => wheelRotationRef' > wheelRotationRef]_vars

\* C7 amended: a tick strictly increases the accumulator when the speed is
\* above 0 and leaves it unchanged when the speed is 0; it never decreases it.
RollIncrease ==
    [][Ticked =>
          /\ manualRotationSpeed' > 0 => wheelRotationRef' > wheelRotationRef
          /\ manualRotationSpeed' = 0 => wheelRotationRef' = wheelRotationRef
          /\ wheelRotationRef' >= wheelRotationRef]_vars

\* C7 witness: ticks have run at speed 0 after ticks at a positive speed
StoppedRolling ==
    /\ manualRotationSpeed = 0
    /\ wheelRotationRef > 0
    /\ frames > 2

\* rest * steer * roll, each factor right-multiplied
Posed(rest, sAxis, steer, rAxis, roll) ==
    Mul(Mul(setFromEuler(rest), setFromAxisAngle(AxisVec(sAxis), steer)),
        setFromAxisAngle(AxisVec(rAxis), roll))

\* the models whose nodes are in the animated list
Listed == {wheelsRef[i][1] : i \in 1..Len(wheelsRef)}

\* C8: on every tick the steering angle used for wheel_front_left is
\* steeringAngle + manualSteeringOffset and the one used for wheel_front_right
\* is its negation, both about the configured steering axis.
MirroredSteering ==
    [][Ticked =>
          \A m \in Listed :
             /\ models'[m][wheel_front_left].quaternion =
                   Posed(models[m][wheel_front_left].initialRotation, steeringAxis',
                         steeringAngleRef' + manualSteeringAngle',
                         rotationAxis', wheelRotationRef')
             /\ models'[m][wheel_front_right].quaternion =
                   Posed(models[m][wheel_front_right].initialRotation, steeringAxis',
                         -(steeringAngleRef' + manualSteeringAngle'),
                         rotationAxis', wheelRotationRef')]_vars

\* C8 witness: both front wheels carry a non-zero steering rotation made of
\* the keyboard angle and a manual offset, the right one the negated angle
MirroredPair ==
    /\ modelRef # NoModel
    /\ steeringAngleRef > 0
    /\ manualSteeringAngle # 0
    /\ steeringAngleRef + manualSteeringAngle # 0
    /\ wheelRotationRef # 0
    /\ models[modelRef][wheel_front_left].quaternion =
          Posed(<<0, 3142, 0>>, steeringAxis, steeringAngleRef + manualSteeringAngle,
                rotationAxis, wheelRotationRef)
    /\ models[modelRef][wheel_front_right].quaternion =
          << <<AxisVec(steeringAxis), -(steeringAngleRef + manualSteeringAngle)>> >>
          \o << <<AxisVec(rotationAxis), wheelRotationRef>> >>

\* C9: the orientation a tick writes to a rear wheel is the rest orientation
\* composed with the roll rotation: a function of rest orientation, roll angle
\* and roll axis alone, so two runs that differ only in steering angle, manual
\* offset, steering axis or held keys write the same rear orientations.
RearWheelsNeverSteer ==
    [][Ticked =>
          \A m \in Listed : \A n \in {wheel_rear_left, wheel_rear_right} :
             models'[m][n].quaternion =
                Mul(setFromEuler(models[m][n].initialRotation),
                    setFromAxisAngle(AxisVec(rotationAxis'), wheelRotationRef'))]_vars

\* C9 witness: the front axle is steered and the rear left wheel has been
\* written with roll only
RearRolledOnly ==
    /\ modelRef # NoModel
    /\ steeringAngleRef + manualSteeringAngle # 0
    /\ wheelRotationRef # 0
    /\ rotationAxis = "z"
    /\ models[modelRef][wheel_rear_left].quaternion =
          << <<<<1, 0, 0>>, 35>>, <<<<0, 1, 0>>, 3142>>, <<<<0, 0, 1>>, wheelRotationRef>> >>

\* C10: a tick writes rest * steer * roll to a front wheel and rest * roll to
\* a rear wheel, roll always the last factor; for wheel_front_right (identity
\* rest orientation) at steering angle 0.3, manual offset 0 and steering axis
\* Y, what precedes the roll is the rotation of -0.3 about Y.
CompositionOrder ==
    /\ [][Ticked =>
             \A m \in Listed : \A n \in {wheel_front_left, wheel_front_right,
                                         wheel_rear_left, wheel_rear_right} :
                LET rest  == setFromEuler(models[m][n].initialRotation)
                    sign  == IF n = wheel_front_right THEN -1 ELSE 1
                    steer == setFromAxisAngle(AxisVec(steeringAxis'),
                                sign * (steeringAngleRef' + manualSteeringAngle'))
                    roll  == setFromAxisAngle(AxisVec(rotationAxis'), wheelRotationRef')
                IN  models'[m][n].quaternion =
                       IF n \in {wheel_front_left, wheel_front_right}
                       THEN Mul(Mul(rest, steer), roll)
                       ELSE Mul(rest, roll)]_vars
    /\ [][(Ticked /\ steeringAngleRef' = 300 /\ manualSteeringAngle' = 0
                  /\ steeringAxis' = "y") =>
             \A m \in Listed :
                models'[m][wheel_front_right].quaternion =
                   Mul(<< <<<<0, 1, 0>>, -300>> >>,
                       setFromAxisAngle(AxisVec(rotationAxis'), wheelRotationRef'))]_vars

\* C10 witness: the example, rolled about X after the steering about Y
FrontRightExample ==
    /\ modelRef # NoModel
    /\ steeringAngleRef = 300
    /\ manualSteeringAngle = 0
    /\ steeringAxis = "y"
    /\ models[modelRef][wheel_front_right].quaternion =
          << <<<<0, 1, 0>>, -300>>, <<<<1, 0, 0>>, wheelRotationRef>> >>

\* the four node names of the naming convention
FourWheels == {wheel_front_left, wheel_front_right, wheel_rear_left, wheel_rear_right}

\* C11: the orientation a tick writes to each animated wheel is a fixed
\* function of its rest orientation, its name (role), the steering angle, the
\* roll angle, the two axes and the manual offset, and of nothing else: not of
\* the orientation the wheel had before.  So a tick whose inputs equal those
\* of the tick that wrote the wheel writes the same orientation again.
Stateless ==
    /\ [][Ticked =>
             \A k \in 1..Len(wheelsRef') :
                LET m == wheelsRef'[k][1]
                    n == wheelsRef'[k][2]
                IN  models'[m][n].quaternion =
                       WheelQuaternion(n, models[m][n].initialRotation,
                                       steeringAxis', rotationAxis',
                                       manualSteeringAngle', steeringAngleRef',
                                       wheelRotationRef')]_vars
    /\ [][(Ticked /\ steeringAngleRef' = steeringAngleRef
                  /\ wheelRotationRef' = wheelRotationRef /\ config' = config) =>
             \A k \in 1..Len(wheelsRef) :
                LET m == wheelsRef[k][1]
                    n == wheelsRef[k][2]
                IN  models[m][n].quaternion =
                       WheelQuaternion(n, models[m][n].initialRotation,
                                       steeringAxis, rotationAxis,
                                       manualSteeringAngle, steeringAngleRef,
                                       wheelRotationRef)
                    => models'[m][n].quaternion = models[m][n].quaternion]_vars

\* C11 witness: with speed 0 and no key held the inputs no longer change, and
\* the wheels of the loaded model carry the orientation of those inputs after
\* several ticks
RecomputedSame ==
    /\ modelRef # NoModel
    /\ manualRotationSpeed = 0
    /\ keysPressed = {}
    /\ steeringAngleRef = 0
    /\ wheelRotationRef = initialRotationSpeed
    /\ frames >= 5
    /\ sinceFrame = 1
    /\ models[modelRef][wheel_front_left].quaternion =
          Posed(<<0, 3142, 0>>, steeringAxis, manualSteeringAngle,
                rotationAxis, wheelRotationRef)
    /\ models[modelRef][wheel_rear_right].quaternion =
          Posed(<<35, 0, 0>>, steeringAxis, 0, rotationAxis, wheelRotationRef)

\* C12: the stored rest orientation of every wheel node is the rotation
\* authored in the mesh, from the load completion that created the node on;
\* no tick, further load completion, change of a setting or removal changes it.
RestCapturedOnce ==
    /\ [](\A m \in DOMAIN models : \A n \in NodeNames :
             StartsWithWheel(n) => models[m][n].initialRotation = AuthoredRotation(n))
    /\ [][\A m \in DOMAIN models : \A n \in NodeNames :
             models'[m][n].initialRotation = models[m][n].initialRotation]_vars

\* C12 witness: a wheel of the first model has been reoriented by a tick, the
\* effect was re-run and a second load has completed; the rest orientation of
\* that wheel is still the authored one
RestKeptAfterReorientation ==
    /\ DOMAIN models = {1, 2}
    /\ models[1][wheel_rear_left].quaternion # setFromEuler(<<35, 3142, 0>>)
    /\ models[1][wheel_rear_left].initialRotation = <<35, 3142, 0>>
    /\ models[2][wheel_rear_left].initialRotation = <<35, 3142, 0>>

\* C13 as stated: only nodes named exactly wheel_front_left, wheel_front_right,
\* wheel_rear_left or wheel_rear_right enter the animated list, and a tick
\* leaves the orientation of every other node unchanged.
OnlyFourAnimated ==
    /\ [](\A k \in 1..Len(wheelsRef) : wheelsRef[k][2] \in FourWheels)
    /\ [][Ticked =>
             \A m \in DOMAIN models : \A n \in NodeNames \ FourWheels :
                models'[m][n].quaternion = models[m][n].quaternion]_vars

\* C14: once the cleanup of an effect has run, no frame callback of that
\* effect is pending, so its tick never runs again: every tick is a tick of the
\* effect that is running and uses the values that effect captured, and after
\* the removal of the component no tick updates the steering angle, the roll
\* accumulator or a wheel orientation.
Cancellation ==
    /\ [](\A i \in 1..Len(effects) : effects[i].disposed => ~effects[i].framePending)
    /\ [][Ticked =>
             /\ ~effects'[Len(effects')].disposed
             /\ wheelRotationRef' =
                   wheelRotationRef + effects'[Len(effects')].manualRotationSpeed]_vars
    /\ [][(effects # << >> /\ \A i \in 1..Len(effects) : effects[i].disposed) =>
             /\ UNCHANGED <<steeringAngleRef, wheelRotationRef, frames>>
             /\ \A m \in DOMAIN models : models'[m] = models[m]]_vars

\* C14 witness: the effect was re-run and then removed after ticks of both
\* runs; both cleanups have run and no frame callback is left pending
AllCancelled ==
    /\ Len(effects) = 2
    /\ effects[1].disposed /\ effects[2].disposed
    /\ ~effects[1].framePending /\ ~effects[2].framePending
    /\ frames >= 3

\* C15 as stated: a load that completes after the cleanup of the effect that
\* started it changes neither the animated-wheel list, nor the current-model
\* reference, nor the contents of the torn-down scene; in particular, when
\* the load of a newer effect has completed before, the list keeps the newer
\* model's wheels.
LateLoadIsNoOp ==
    /\ [][\A i \in 1..Len(effects) :
             (effects[i].disposed /\ effects[i].load = "pending"
                 /\ effects'[i].load = "loaded") =>
                /\ wheelsRef' = wheelsRef
                /\ modelRef' = modelRef
                /\ effects'[i].scene = effects[i].scene]_vars
    /\ [][\A i \in 1..Len(effects) : \A j \in 1..Len(effects) :
             (i < j /\ effects[j].load = "loaded" /\ Listed = {j}
                 /\ effects[i].load = "pending" /\ effects'[i].load = "loaded") =>
                Listed' = {j}]_vars

\* the models in the scene that is rendered: the scene of the running effect
Rendered == IF Mounted THEN effects[Len(effects)].scene ELSE {}

\* C16 as stated: the step that changes a setting runs the first tick
\* afterwards; that tick uses the new values and writes them to the wheel
\* nodes of the rendered scene, which has them without a load completing
\* first.
ConfigAppliedNextTick ==
    [][config' # config =>
          /\ Ticked
          /\ Rendered # {} => Rendered' # {}
          /\ Listed' \subseteq Rendered'
          /\ \A m \in Rendered' : \A n \in FourWheels :
                models'[m][n].quaternion =
                   WheelQuaternion(n, models'[m][n].initialRotation,
                                   steeringAxis', rotationAxis', manualSteeringAngle',
                                   steeringAngleRef', wheelRotationRef')]_vars

\* C17: the onError step changes nothing but the state of that load: the
\* refs, the models and the pending frame callback stay as they are; a failed
\* load stays failed (no second load); the loop of a running effect whose load
\* failed has its frame callback pending, and its ticks update steering and
\* roll as ever; and the animated list holds nodes of completed loads only.
LoadFailureNonFatal ==
    /\ [][\A i \in 1..Len(effects) :
             (effects[i].load = "pending" /\ effects'[i].load = "failed") =>
                /\ UNCHANGED <<refs, models, frames>>
                /\ effects' = [effects EXCEPT ![i].load = "failed"]]_vars
    /\ [][\A i \in 1..Len(effects) :
             effects[i].load = "failed" => effects'[i].load = "failed"]_vars
    /\ [](\A i \in 1..Len(effects) :
             (effects[i].load = "failed" /\ ~effects[i].disposed) =>
                effects[i].framePending)
    /\ [][(Ticked /\ \E i \in 1..Len(effects) : effects[i].load = "failed") =>
             /\ steeringAngleRef' =
                   IF "a" \in keysPressed
                   THEN Min(steeringAngleRef + steeringSpeed, maxSteeringAngle)
                   ELSE Decayed(steeringAngleRef)
             /\ wheelRotationRef' = wheelRotationRef + manualRotationSpeed']_vars
    /\ [](\A m \in Listed : effects[m].load = "loaded")

\* C17 witness: the only load failed, the loop is still pending and ticks
\* have steered and rolled; no wheel is listed
FailedAndTicking ==
    /\ Len(effects) = 1
    /\ effects[1].load = "failed"
    /\ effects[1].framePending
    /\ steeringAngleRef = 2 * steeringSpeed
    /\ wheelRotationRef = 4 * initialRotationSpeed
    /\ wheelsRef = << >>
    /\ modelRef = NoModel

SingleFrameLoop ==
    /\ Cardinality({i \in 1..Len(effects) : effects[i].framePending}) <= 1
    /\ sinceFrame <= 1

====
